---- MODULE Spec2Model ----
(***************************************************************************)
(* Model of the refoss energy accounting core                              *)
(* (custom_components/refoss/sensor.py): the three calendar jobs set up by *)
(* async_setup_entry, the class-level offset caches of RefossSensor, the   *)
(* per-device JSON files, the watchdog observer that reloads them and the  *)
(* derivation in RefossSensor.native_value.                                *)
(*                                                                         *)
(* Time is a datetime record [year, month, day, sec] with sec the second   *)
(* of the day.  The code never resets the microsecond field, so a target   *)
(* built with now.replace(...) carries now's own sub-second part and every *)
(* comparison now > target is decided by the whole seconds alone.          *)
(***************************************************************************)
EXTENDS Integers, Sequences, FiniteSets, TLC

\* ------------------------------------------------------------------ bounds

\* Days of simulated time after the start instant (Spec).
MaxDays == 1
\* Days of simulated time after the start instant (SchedSpec).
MaxSchedDays == 70
\* Total number of environment events in a run: consumption steps of the
\* device counters and out-of-band changes of the files.
MaxEvents == 1
\* Devices are discovered within this many days of the start instant.
DiscoverWithin == 0

\* ---------------------------------------------------------------- calendar

SecondsPerDay == 86400

DT(y, m, d, s) == [year |-> y, month |-> m, day |-> d, sec |-> s]

IsLeap(y) == (y % 4 = 0 /\ y % 100 # 0) \/ y % 400 = 0

DaysInMonth(y, m) ==
    CASE m \in {4, 6, 9, 11} -> 30
      [] m = 2 -> IF IsLeap(y) THEN 29 ELSE 28
      [] OTHER -> 31

\* datetime.__gt__ / __lt__ : chronological order.
Before(a, b) ==
    \/ a.year < b.year
    \/ a.year = b.year /\ a.month < b.month
    \/ a.year = b.year /\ a.month = b.month /\ a.day < b.day
    \/ a.year = b.year /\ a.month = b.month /\ a.day = b.day /\ a.sec < b.sec

After(a, b) == Before(b, a)

NotAfter(a, b) == ~Before(b, a)

\* The exception datetime.replace raises for a day the month does not have.
ValueError == [raised |-> "ValueError"]

\* now.replace(day=d, hour=0, minute=0, second=0)
ReplaceDayMidnight(t, d) ==
    IF d >= 1 /\ d <= DaysInMonth(t.year, t.month)
    THEN DT(t.year, t.month, d, 0)
    ELSE ValueError

\* t.replace(month=m, year=y)
ReplaceMonthYear(t, m, y) ==
    IF t.day <= DaysInMonth(y, m) THEN DT(y, m, t.day, t.sec) ELSE ValueError

\* t + datetime.timedelta(days=1)
PlusOneDay(t) ==
    IF t.day < DaysInMonth(t.year, t.month) THEN DT(t.year, t.month, t.day + 1, t.sec)
    ELSE IF t.month < 12 THEN DT(t.year, t.month + 1, 1, t.sec)
    ELSE DT(t.year + 1, 1, 1, t.sec)

MinusOneDay(t) ==
    IF t.day > 1 THEN DT(t.year, t.month, t.day - 1, t.sec)
    ELSE IF t.month > 1 THEN DT(t.year, t.month - 1, DaysInMonth(t.year, t.month - 1), t.sec)
    ELSE DT(t.year - 1, 12, 31, t.sec)

\* t - datetime.timedelta(seconds=1)
MinusOneSecond(t) ==
    IF t.sec > 0 THEN DT(t.year, t.month, t.day, t.sec - 1)
    ELSE MinusOneDay(DT(t.year, t.month, t.day, SecondsPerDay - 1))

\* The clock k seconds after t, for 0 <= k < SecondsPerDay.
PlusSeconds(t, k) ==
    IF t.sec + k < SecondsPerDay THEN DT(t.year, t.month, t.day, t.sec + k)
    ELSE PlusOneDay(DT(t.year, t.month, t.day, t.sec + k - SecondsPerDay))

\* ----------------------------------------------------- scheduler targets

\* (now.month % 12) + 1 and now.year + (1 if now.month == 12 else 0)
NextMonthOf(t) == (t.month % 12) + 1

YearOfNextMonth(t) == t.year + (IF t.month = 12 THEN 1 ELSE 0)

\* schedule_user_reset: the target handed to async_track_point_in_time, or
\* the ValueError that leaves the function before the timer is armed.
UserResetTarget(t, day) ==
    LET target_time == ReplaceDayMidnight(t, day)
    IN  IF target_time = ValueError THEN ValueError
        ELSE IF After(t, target_time)
             THEN ReplaceMonthYear(target_time, NextMonthOf(t), YearOfNextMonth(t))
             ELSE target_time

\* schedule_device_reset: as above, then one second earlier.
DeviceResetTarget(t, day) ==
    LET target_time == ReplaceDayMidnight(t, day)
        moved == IF target_time = ValueError THEN ValueError
                 ELSE IF After(t, target_time)
                      THEN ReplaceMonthYear(target_time, NextMonthOf(t), YearOfNextMonth(t))
                      ELSE target_time
    IN  IF moved = ValueError THEN ValueError ELSE MinusOneSecond(moved)

\* schedule_daily_energy_save: today's midnight, or tomorrow's when it has passed.
DailyTarget(t) ==
    LET target_time == DT(t.year, t.month, t.day, 0)
    IN  IF After(t, target_time) THEN PlusOneDay(target_time) ELSE target_time

\* ------------------------------------------------------ devices and files

\* The metering devices (ElectricityXMix) the bridge can discover.
Devs == {"A", "B"}

\* device.channels
Channels(d) == IF d = "A" THEN {1, 2} ELSE {1}

\* The cumulative counters (mConsume) the devices report when the run starts.
InitialValue == [d \in Devs |-> IF d = "A" THEN [c \in {1, 2} |-> 3 + c] ELSE [c \in {1} |-> 2]]

Jobs == {"user", "device", "daily"}

\* f"/config/{device_name}_monthly_energy.json", f"/config/{device_name}_daily_energy.json"
Path(d, store) == <<d, store>>

Paths == {Path(d, s) : d \in Devs, s \in {"monthly", "daily"}}

\* str(channel); json.dump writes an int key the same way.
Str(c) == <<"0", "1", "2", "3", "4", "5", "6", "7", "8", "9">>[c + 1]

EmptyMap == [k \in {} |-> 0]

\* What a path can hold.
Missing == [kind |-> "missing"]
Unreadable == [kind |-> "unreadable"]
EmptyFile == [kind |-> "empty"]
InvalidJson == [kind |-> "invalid_json"]
InvalidUtf8 == [kind |-> "invalid_utf8"]
NonObject == [kind |-> "non_object"]
Object(m) == [kind |-> "object", map |-> m]

\* json.dump(energy_data, file, indent=4) of a dict keyed by channel.
JsonDump(data) ==
    Object([k \in {Str(c) : c \in DOMAIN data} |->
               data[CHOOSE c \in DOMAIN data : Str(c) = k]])

\* A value of the class attributes _cached_*_energy_data.
Dict(m) == [kind |-> "dict", map |-> m]
ListValue == [kind |-> "list"]

\* {str(channel): 0 for channel in self.coordinator.device.channels}
ZeroMap(d) == [k \in {Str(c) : c \in Channels(d)} |-> 0]

\* A value a Python expression yields, or the exception that leaves it.
Value(n) == [raised |-> "no", value |-> n]
Raise(e) == [raised |-> e]

\* cache.get(key, 0)
Get(cache, key) ==
    IF cache.kind # "dict" THEN Raise("AttributeError")
    ELSE IF key \in DOMAIN cache.map THEN Value(cache.map[key]) ELSE Value(0)

\* with open(path, "r", encoding="utf-8") as file: cache = json.load(file)
\* under except (IOError, json.JSONDecodeError): cache = zero map.
\* UnicodeDecodeError is a ValueError but no JSONDecodeError: it is not caught.
LoadFile(content, d, old) ==
    CASE content.kind \in {"missing", "unreadable"} -> [raised |-> "no", cache |-> Dict(ZeroMap(d))]
      [] content.kind \in {"empty", "invalid_json"} -> [raised |-> "no", cache |-> Dict(ZeroMap(d))]
      [] content.kind = "invalid_utf8" -> [raised |-> "UnicodeDecodeError", cache |-> old]
      [] content.kind = "non_object" -> [raised |-> "no", cache |-> ListValue]
      [] OTHER -> [raised |-> "no", cache |-> Dict(content.map)]

\* ------------------------------------------------------------------- state

VARIABLES
    now,                \* datetime.datetime.now()
    user_reset_day,     \* config_entry.data.get("user_reset_day", 24)
    device_reset_day,   \* config_entry.data.get("device_reset_day", 1)
    entry,              \* async_setup_entry: "not_loaded", "loaded", "setup_failed"
    coordinators,       \* hass.data[DOMAIN][COORDINATORS], in discovery order
    sensors,            \* devices whose RefossSensor entities were constructed
    devValue,           \* device.get_value(channel, "mConsume")
    file,               \* content of every path under /config
    cached_monthly,     \* RefossSensor._cached_monthly_energy_data
    cached_daily,       \* RefossSensor._cached_daily_energy_data
    observer,           \* RefossSensor._observer
    pending,            \* modified paths the observer thread has not handled yet
    timers,             \* targets armed with async_track_point_in_time, per job
    sleeping,           \* wake-up times of the jobs inside asyncio.sleep(3)
    running,            \* the job coroutine the event loop is executing
    daysElapsed,        \* days since the start instant
    consumed,           \* consumption steps taken
    edits,              \* out-of-band writes made
    faults,             \* writes of a job that failed after the file was opened
    zeroedIn,           \* per device, the month of its last own counter reset
    fired,              \* history: per job, the targets its body was run for
    sched,              \* history: the most recent scheduling calls
    loads,              \* history: the loads of the most recent step
    snap,               \* history: per job, what its latest firing found
    edited,             \* history: the most recent out-of-band write
    last                \* history: the most recent step

vars == <<now, user_reset_day, device_reset_day, entry, coordinators, sensors,
          devValue, file, cached_monthly, cached_daily, observer, pending,
          timers, sleeping, running, daysElapsed, consumed, edits, faults,
          zeroedIn, fired, sched, loads, snap, edited, last>>

configVars == <<user_reset_day, device_reset_day>>
storeVars == <<file, cached_monthly, cached_daily, observer, pending>>
jobVars == <<timers, sleeping, running, fired, sched>>
envVars == <<devValue, consumed, edits, faults, zeroedIn, edited>>

NoJob == [job |-> "none"]
NoObserver == [sensor |-> "none", alive |-> FALSE]
NoEdit == [path |-> "none"]

\* await asyncio.sleep(3)
GraceDelay == 3

\* ------------------------------------------------------------ derivation

\* device.get_value(channel, subkey) or 0
GetValueOr0(d, c) == devValue[d][c]

\* The translation keys of the six sensor descriptions of a channel.
InstantKeys == {"power", "voltage", "current", "factor"}
EnergyKeys == {"this_month_energy", "this_day_energy"}

\* entity_description.subkey
Subkey(key) == IF key \in EnergyKeys THEN "mConsume" ELSE key

\* A value the device reports, or None when it has no status for the channel.
Some(n) == [present |-> TRUE, value |-> n]
None == [present |-> FALSE]

\* The instantaneous readings of every channel during the run: milliwatts,
\* millivolts, milliamperes; no power factor is reported.
InstantReading ==
    [k \in InstantKeys |->
        CASE k = "power" -> Some(1500)
          [] k = "voltage" -> Some(230000)
          [] k = "current" -> Some(0)
          [] OTHER -> None]

\* device.get_value(channel, subkey)
get_value(d, c, subkey) ==
    IF subkey = "mConsume" THEN Some(devValue[d][c]) ELSE InstantReading[subkey]

\* v or 0
OrZero(v) == IF v.present THEN v.value ELSE 0

\* x / 1000.0, kept exact as a number of thousandths.
Thousandths(x) == [thousandths |-> x]

\* entity_description.fn
Fn(key, x) == IF key = "power" THEN Thousandths(x) ELSE x

\* RefossSensor.native_value for the sensor of channel c of d with the given
\* translation key.
NativeValue(d, c, key, cm, cd) ==
    LET device_value == OrZero(get_value(d, c, Subkey(key)))
        daily_stored_value == Get(cd, Str(c))
        monthly_stored_value == Get(cm, Str(c))
    IN  IF daily_stored_value.raised # "no" THEN daily_stored_value
        ELSE IF monthly_stored_value.raised # "no" THEN monthly_stored_value
        ELSE IF key = "this_day_energy"
             THEN Value(Fn(key, device_value + monthly_stored_value.value
                                    - daily_stored_value.value))
        ELSE IF key = "this_month_energy"
             THEN Value(Fn(key, device_value + monthly_stored_value.value))
        ELSE Value(Fn(key, device_value))

native_value(d, c, key) == NativeValue(d, c, key, cached_monthly, cached_daily)

this_month_energy(d, c) == native_value(d, c, "this_month_energy")
this_day_energy(d, c) == native_value(d, c, "this_day_energy")

\* ---------------------------------------------------------- sensor set-up

\* The paths the one EnergyFileWatcher handles: those of the sensor that
\* started the observer.
WatchedPaths(obs) ==
    IF obs.sensor = "none" THEN {}
    ELSE {Path(obs.sensor, "monthly"), Path(obs.sensor, "daily")}

\* The modification events a write of path p queues for the observer thread.
Notify(obs, pend, p) ==
    IF obs.alive /\ p \in WatchedPaths(obs) THEN pend \cup {p} ELSE pend

\* ensure_file_exists(path, use_sensor_values): the content written when the
\* path does not exist, or the exception other than IOError that leaves it.
DefaultData(d, use_sensor_values, cm) ==
    IF ~use_sensor_values THEN Value(ZeroMap(d))
    ELSE IF cm.kind # "dict" THEN Raise("AttributeError")
    ELSE Value([k \in {Str(c) : c \in Channels(d)} |->
                  LET c == CHOOSE x \in Channels(d) : Str(x) = k
                  IN  GetValueOr0(d, c) + Get(cm, k).value])

\* RefossSensor.__init__ from the first ensure_file_exists on, for the first
\* sensor of device d.  S holds file, cm, cd, observer, sensors.  /config is
\* writable, so creating a file that does not exist succeeds.  The sensors of
\* the other channels and descriptions of d repeat the same calls on the same
\* files within the same callback and change nothing more.
SensorInit(S, d) ==
    LET pm == Path(d, "monthly")
        pd == Path(d, "daily")
        f1 == IF S.file[pm] = Missing
              THEN [S.file EXCEPT ![pm] = Object(ZeroMap(d))] ELSE S.file
        dflt == DefaultData(d, TRUE, S.cm)
        f2 == IF f1[pd] = Missing /\ dflt.raised = "no"
              THEN [f1 EXCEPT ![pd] = Object(dflt.value)] ELSE f1
        lm == LoadFile(f2[pm], d, S.cm)
        ld == LoadFile(f2[pd], d, S.cd)
        recM == [store |-> "monthly", dev |-> d, content |-> f2[pm], raised |-> lm.raised,
                 result |-> lm.cache]
        recD == [store |-> "daily", dev |-> d, content |-> f2[pd], raised |-> ld.raised,
                 result |-> ld.cache]
    IN  IF f1[pd] = Missing /\ dflt.raised # "no"
        THEN [S EXCEPT !.file = f1, !.raised = dflt.raised]
        ELSE IF lm.raised # "no"
        THEN [S EXCEPT !.file = f2, !.raised = lm.raised, !.loads = @ \cup {recM}]
        ELSE IF ld.raised # "no"
        THEN [S EXCEPT !.file = f2, !.cm = lm.cache, !.raised = ld.raised,
                       !.loads = @ \cup {recM, recD}]
        ELSE [S EXCEPT !.file = f2, !.cm = lm.cache, !.cd = ld.cache,
                       !.loads = @ \cup {recM, recD},
                       !.observer = IF @ = NoObserver
                                    THEN [sensor |-> d, alive |-> TRUE] ELSE @,
                       !.sensors = @ \cup {d}]

\* init_device for the devices of ds, in order.  An exception in the
\* construction of a device's sensors keeps that device without entities.
RECURSIVE InitDevices(_, _)
InitDevices(S, ds) ==
    IF ds = <<>> THEN S
    ELSE InitDevices([SensorInit(S, Head(ds)) EXCEPT !.raised = "no"], Tail(ds))

StoreState ==
    [file |-> file, cm |-> cached_monthly, cd |-> cached_daily, observer |-> observer,
     sensors |-> sensors, loads |-> {}, raised |-> "no"]

SetStore(S) ==
    /\ file' = S.file
    /\ cached_monthly' = S.cm
    /\ cached_daily' = S.cd
    /\ observer' = S.observer
    /\ sensors' = S.sensors
    /\ loads' = S.loads

\* ------------------------------------------------------------- scheduling

\* schedule_user_reset / schedule_device_reset / schedule_daily_energy_save
\* called at time t: the target armed, or ValueError.
ScheduleTarget(j, t) ==
    CASE j = "user" -> UserResetTarget(t, user_reset_day)
      [] j = "device" -> DeviceResetTarget(t, device_reset_day)
      [] OTHER -> DailyTarget(t)

\* async_track_point_in_time(hass, callback, target_time)
Arm(tm, j, target) == [tm EXCEPT ![j] = Append(@, target)]

RemoveAt(seq, i) == [k \in 1..(Len(seq) - 1) |-> IF k < i THEN seq[k] ELSE seq[k + 1]]

\* The job rearmed without the sleep.
GraceWake_NoSleep(t) == t

\* The time at which the coroutine resumes after await asyncio.sleep(3).
GraceWake(t) == PlusSeconds(t, GraceDelay)

\* async_setup_entry: the three schedule_* calls in order (a ValueError leaves
\* the function with the timers armed so far), then init_device for every
\* coordinator already discovered.
AsyncSetupEntry ==
    /\ entry = "not_loaded"
    /\ running = NoJob
    /\ LET u == ScheduleTarget("user", now)
           dv == ScheduleTarget("device", now)
           dl == ScheduleTarget("daily", now)
           call(j, r) == [job |-> j, at |-> now, result |-> r]
       IN  IF u = ValueError
           THEN /\ entry' = "setup_failed"
                /\ sched' = {call("user", u)}
                /\ UNCHANGED <<timers, file, cached_monthly, cached_daily, observer, sensors>>
                /\ loads' = {}
           ELSE IF dv = ValueError
           THEN /\ entry' = "setup_failed"
                /\ sched' = {call("user", u), call("device", dv)}
                /\ timers' = Arm(timers, "user", u)
                /\ UNCHANGED <<file, cached_monthly, cached_daily, observer, sensors>>
                /\ loads' = {}
           ELSE /\ entry' = "loaded"
                /\ sched' = {call("user", u), call("device", dv), call("daily", dl)}
                /\ timers' = Arm(Arm(Arm(timers, "user", u), "device", dv), "daily", dl)
                /\ SetStore(InitDevices(StoreState, coordinators))
    /\ last' = [op |-> "setup"]
    /\ UNCHANGED <<now, configVars, coordinators, pending, sleeping, running, fired,
                   snap, daysElapsed, envVars>>

\* The bridge discovers device d: it joins COORDINATORS and, once the platform
\* is set up, DISPATCH_DEVICE_DISCOVERED runs init_device for it.
Discover(d) ==
    /\ running = NoJob
    /\ \A i \in 1..Len(coordinators) : coordinators[i] # d
    /\ daysElapsed <= DiscoverWithin
    /\ coordinators' = Append(coordinators, d)
    /\ IF entry = "loaded"
       THEN SetStore(InitDevices(StoreState, <<d>>))
       ELSE /\ UNCHANGED <<file, cached_monthly, cached_daily, observer, sensors>>
            /\ loads' = {}
    /\ last' = [op |-> "discover", dev |-> d]
    /\ UNCHANGED <<now, configVars, entry, pending, jobVars, snap, daysElapsed, envVars>>

\* ------------------------------------------------------------------- jobs

\* Every job writing the daily store.
StoreOf_AlwaysDaily(j) == "daily"

\* The store a job writes.
StoreOf(j) == IF j = "daily" THEN "daily" ELSE "monthly"

\* The dict a job builds for device d before it opens the file, or the
\* exception that ends the coroutine.  save_daily_energy reads now.day, and
\* no scope of that function binds the name now (it is a local of the three
\* schedule_* functions only): the first channel raises NameError.
EnergyData(j, d, cm) ==
    CASE j = "user" ->
           Value([c \in Channels(d) |-> (-1) * GetValueOr0(d, c)])
      [] j = "device" ->
           IF Channels(d) # {} /\ cm.kind # "dict" THEN Raise("AttributeError")
           ELSE Value([c \in Channels(d) |-> GetValueOr0(d, c) + Get(cm, Str(c)).value])
      [] OTHER ->
           IF Channels(d) = {} THEN Value(EmptyMap)
           ELSE IF cm.kind # "dict" THEN Raise("AttributeError")
           ELSE Raise("NameError")

\* The point in time of a timer is reached: its callback starts.
TimerFires(j) ==
    /\ running = NoJob
    /\ \E i \in 1..Len(timers[j]) :
          /\ NotAfter(timers[j][i], now)
          /\ timers' = [timers EXCEPT ![j] = RemoveAt(@, i)]
          /\ fired' = [fired EXCEPT ![j] = Append(@, timers[j][i])]
          /\ running' = [job |-> j, todo |-> coordinators, phase |-> "compute",
                         data |-> EmptyMap, done |-> {}]
    /\ snap' = [snap EXCEPT ![j] = [state |-> "running", at |-> now, dev |-> devValue,
                                     cm |-> cached_monthly, cd |-> cached_daily,
                                     file |-> file, sensors |-> sensors, done |-> {}]]
    /\ last' = [op |-> "fire", job |-> j]
    /\ loads' = {}
    /\ UNCHANGED <<now, configVars, entry, coordinators, sensors, storeVars, sleeping,
                   sched, daysElapsed, envVars>>

\* One pass of the for-loop up to open(file_path, "w"): the dict is built
\* and the file truncated, or open raises IOError (logged, next device) for
\* a path the process may not open.
JobOpen ==
    /\ running # NoJob
    /\ running.phase = "compute"
    /\ running.todo # <<>>
    /\ LET d == Head(running.todo)
           p == Path(d, StoreOf(running.job))
           data == EnergyData(running.job, d, cached_monthly)
       IN  IF data.raised # "no"
           THEN /\ running' = NoJob
                /\ snap' = [snap EXCEPT ![running.job].state = "raised",
                                        ![running.job].done = running.done]
                /\ last' = [op |-> "job_raised", job |-> running.job, error |-> data.raised]
                /\ UNCHANGED <<file, pending>>
           ELSE IF file[p] # Unreadable
           THEN /\ file' = [file EXCEPT ![p] = EmptyFile]
                /\ pending' = IF file[p].kind \in {"missing", "empty"} THEN pending
                              ELSE Notify(observer, pending, p)
                /\ running' = [running EXCEPT !.phase = "dump", !.data = data.value]
                /\ last' = [op |-> "job_open", job |-> running.job]
                /\ UNCHANGED snap
           ELSE /\ running' = [running EXCEPT !.todo = Tail(@)]
                /\ last' = [op |-> "job_ioerror", job |-> running.job, path |-> p]
                /\ UNCHANGED <<file, pending, snap>>
    /\ loads' = {}
    /\ UNCHANGED <<now, configVars, entry, coordinators, sensors, cached_monthly,
                   cached_daily, observer, timers, sleeping, fired, sched,
                   daysElapsed, envVars>>

\* json.dump and the close of the file.  The write may fail after open has
\* truncated the file (no space left on the device): the OSError is caught by
\* except IOError, logged, and the loop goes on with the next device.
JobDump ==
    /\ running # NoJob
    /\ running.phase = "dump"
    /\ LET d == Head(running.todo)
           p == Path(d, StoreOf(running.job))
       IN  \/ /\ file' = [file EXCEPT ![p] = JsonDump(running.data)]
              /\ pending' = Notify(observer, pending, p)
              /\ running' = [running EXCEPT !.todo = Tail(@), !.phase = "compute",
                                            !.data = EmptyMap, !.done = @ \cup {d}]
              /\ last' = [op |-> "job_dump", job |-> running.job]
              /\ UNCHANGED faults
           \/ /\ edits + consumed + faults < MaxEvents
              /\ faults' = faults + 1
              /\ running' = [running EXCEPT !.todo = Tail(@), !.phase = "compute",
                                            !.data = EmptyMap]
              /\ last' = [op |-> "job_ioerror", job |-> running.job, path |-> p]
              /\ UNCHANGED <<file, pending>>
    /\ loads' = {}
    /\ UNCHANGED <<now, configVars, entry, coordinators, sensors, cached_monthly,
                   cached_daily, observer, timers, sleeping, fired, sched, snap,
                   daysElapsed, devValue, consumed, edits, zeroedIn, edited>>

\* The loop is over: await asyncio.sleep(3).
JobSleep ==
    /\ running # NoJob
    /\ running.phase = "compute"
    /\ running.todo = <<>>
    /\ sleeping' = [sleeping EXCEPT ![running.job] = Append(@, GraceWake(now))]
    /\ running' = NoJob
    /\ snap' = [snap EXCEPT ![running.job].state = "done",
                            ![running.job].done = running.done]
    /\ last' = [op |-> "job_done", job |-> running.job]
    /\ loads' = {}
    /\ UNCHANGED <<now, configVars, entry, coordinators, sensors, storeVars, timers,
                   fired, sched, daysElapsed, envVars>>

\* The sleep is over: the job calls its schedule_* function again.
JobRearm(j) ==
    /\ running = NoJob
    /\ \E i \in 1..Len(sleeping[j]) :
          /\ NotAfter(sleeping[j][i], now)
          /\ sleeping' = [sleeping EXCEPT ![j] = RemoveAt(@, i)]
    /\ LET target == ScheduleTarget(j, now)
       IN  /\ sched' = {[job |-> j, at |-> now, result |-> target]}
           /\ timers' = IF target = ValueError THEN timers ELSE Arm(timers, j, target)
    /\ last' = [op |-> "rearm", job |-> j]
    /\ loads' = {}
    /\ UNCHANGED <<now, configVars, entry, coordinators, sensors, storeVars, running,
                   fired, snap, daysElapsed, envVars>>

\* ---------------------------------------------------------------- watcher

\* EnergyFileWatcher.on_modified for a queued event of path p, on the
\* observer thread: load_daily_energy_data or load_energy_data of the sensor
\* that started the observer.  An exception the load does not catch ends the
\* observer thread.
WatcherReload(p) ==
    /\ observer.alive
    /\ p \in pending
    /\ LET d == observer.sensor
           old == IF p[2] = "daily" THEN cached_daily ELSE cached_monthly
           res == LoadFile(file[p], d, old)
       IN  /\ loads' = {[store |-> p[2], dev |-> d, content |-> file[p],
                         raised |-> res.raised, result |-> res.cache]}
           /\ IF res.raised # "no"
              THEN /\ observer' = [observer EXCEPT !.alive = FALSE]
                   /\ pending' = {}
                   /\ UNCHANGED <<cached_monthly, cached_daily>>
              ELSE /\ pending' = pending \ {p}
                   /\ cached_daily' = IF p[2] = "daily" THEN res.cache ELSE cached_daily
                   /\ cached_monthly' = IF p[2] = "monthly" THEN res.cache ELSE cached_monthly
                   /\ UNCHANGED observer
    /\ last' = [op |-> "reload", store |-> p[2]]
    /\ UNCHANGED <<now, configVars, entry, coordinators, sensors, file, jobVars, snap,
                   daysElapsed, envVars>>

\* ------------------------------------------------------------ environment

\* Channel c of device d meters one more unit.
Consume(d, c) ==
    /\ running = NoJob
    /\ edits + consumed + faults < MaxEvents
    /\ \E i \in 1..Len(coordinators) : coordinators[i] = d
    /\ devValue' = [devValue EXCEPT ![d][c] = @ + 1]
    /\ consumed' = consumed + 1
    /\ last' = [op |-> "consume", dev |-> d]
    /\ loads' = {}
    /\ UNCHANGED <<now, configVars, entry, coordinators, sensors, storeVars, jobVars,
                   snap, daysElapsed, edits, faults, zeroedIn, edited>>

\* Device d resets its own counters at midnight of its reset day.
DeviceSelfReset(d) ==
    /\ running = NoJob
    /\ now.day = device_reset_day
    /\ now.sec = 0
    /\ zeroedIn[d] # <<now.year, now.month>>
    /\ devValue' = [devValue EXCEPT ![d] = [c \in Channels(d) |-> 0]]
    /\ zeroedIn' = [zeroedIn EXCEPT ![d] = <<now.year, now.month>>]
    /\ last' = [op |-> "device_self_reset", dev |-> d]
    /\ loads' = {}
    /\ UNCHANGED <<now, configVars, entry, coordinators, sensors, storeVars, jobVars,
                   snap, daysElapsed, consumed, edits, faults, edited>>

\* What an outside actor may leave in the file of a store of device d.
ExternalContents(d) ==
    {Object([k \in {Str(c) : c \in Channels(d)} |-> 9]), Object(EmptyMap),
     InvalidJson, InvalidUtf8, NonObject, Unreadable, Missing}

\* An actor outside the process rewrites, damages or removes path p.
ExternalEdit(p, content) ==
    /\ running = NoJob
    /\ edits + consumed + faults < MaxEvents
    /\ file[p] # content
    /\ file' = [file EXCEPT ![p] = content]
    /\ pending' = IF content.kind \in {"missing", "unreadable"} THEN pending
                  ELSE Notify(observer, pending, p)
    /\ edits' = edits + 1
    /\ edited' = [path |-> p, content |-> content]
    /\ last' = [op |-> "external_edit", path |-> p]
    /\ loads' = {}
    /\ UNCHANGED <<now, configVars, entry, coordinators, sensors, cached_monthly,
                   cached_daily, observer, jobVars, snap, daysElapsed, devValue,
                   consumed, faults, zeroedIn>>

\* ------------------------------------------------------------------ clock

\* The seconds of the day at which the clock is sampled between deadlines.
DayGrid == {0, 43200}

NextGrid(t) ==
    IF \E s \in DayGrid : s > t.sec
    THEN DT(t.year, t.month, t.day, CHOOSE s \in DayGrid : s > t.sec /\ \A r \in DayGrid : r > t.sec => s <= r)
    ELSE PlusOneDay(DT(t.year, t.month, t.day, CHOOSE s \in DayGrid : \A r \in DayGrid : s <= r))

Range(seq) == {seq[i] : i \in 1..Len(seq)}

Deadlines == UNION {Range(timers[j]) \cup Range(sleeping[j]) : j \in Jobs}

Earliest(S) == CHOOSE t \in S : \A u \in S : NotAfter(t, u)

\* Time passes up to the next deadline or sampling instant.  Timers and
\* sleeps that are due run before the clock moves on, and so does the observer
\* thread's handling of the events queued for it.
Advance(limit) ==
    /\ entry # "not_loaded"
    /\ running = NoJob
    /\ pending = {}
    /\ \A t \in Deadlines : After(t, now)
    /\ now' = Earliest({NextGrid(now)} \cup Deadlines)
    /\ daysElapsed' = IF now'.day # now.day THEN daysElapsed + 1 ELSE daysElapsed
    /\ daysElapsed' <= limit
    /\ last' = [op |-> "advance"]
    /\ loads' = {}
    /\ UNCHANGED <<configVars, entry, coordinators, sensors, storeVars, jobVars, snap,
                   devValue, consumed, edits, faults, zeroedIn, edited>>

\* ---------------------------------------------------------- specifications

\* Files a previous run of the process left behind.
PersistedFiles ==
    [p \in Paths |-> Object([k \in {Str(c) : c \in Channels(p[1])} |->
                               IF p[2] = "monthly" THEN -1 ELSE 1])]

FreshFiles == [p \in Paths |-> Missing]

InitCommon ==
    /\ entry = "not_loaded"
    /\ sensors = {}
    /\ devValue = InitialValue
    /\ cached_monthly = Dict(EmptyMap)
    /\ cached_daily = Dict(EmptyMap)
    /\ observer = NoObserver
    /\ pending = {}
    /\ timers = [j \in Jobs |-> <<>>]
    /\ sleeping = [j \in Jobs |-> <<>>]
    /\ running = NoJob
    /\ daysElapsed = 0
    /\ consumed = 0
    /\ edits = 0
    /\ faults = 0
    /\ zeroedIn = [d \in Devs |-> <<>>]
    /\ fired = [j \in Jobs |-> <<>>]
    /\ sched = {}
    /\ loads = {}
    /\ snap = [j \in Jobs |-> [state |-> "never"]]
    /\ edited = NoEdit
    /\ last = [op |-> "start"]

\* The process starts at noon of 30 January with the reset days 31 and 1 (the
\* user boundary and the capture fall inside the run), or at noon of 31 January
\* with the defaults 24 and 1 (the capture, the device's own reset and an
\* ordinary midnight fall inside the run).
Scenarios == {<<31, 1, DT(2025, 1, 30, 43200)>>, <<24, 1, DT(2025, 1, 31, 43200)>>}

Init ==
    /\ \E sc \in Scenarios :
          user_reset_day = sc[1] /\ device_reset_day = sc[2] /\ now = sc[3]
    /\ coordinators = <<>>
    /\ file \in {FreshFiles, PersistedFiles}
    /\ InitCommon

Next ==
    \/ AsyncSetupEntry
    \/ \E d \in Devs : Discover(d)
    \/ \E j \in Jobs : TimerFires(j)
    \/ JobOpen
    \/ JobDump
    \/ JobSleep
    \/ \E j \in Jobs : JobRearm(j)
    \/ \E p \in Paths : WatcherReload(p)
    \/ \E d \in Devs : \E c \in Channels(d) : Consume(d, c)
    \/ \E d \in Devs : DeviceSelfReset(d)
    \/ \E p \in Paths : \E content \in ExternalContents(p[1]) : ExternalEdit(p, content)
    \/ Advance(MaxDays)

Spec == Init /\ [][Next]_vars

\* The calendar alone: every reset day of the configuration form, over more
\* than two months, with no device or one device present.
ConfigDays == 1..31

\* Noon before the leap February of 2024, noon before the turn of the year,
\* and the first instant of a first of the month.
SchedStarts == {DT(2024, 1, 30, 43200), DT(2024, 12, 30, 43200), DT(2025, 1, 1, 0)}

SchedInit ==
    /\ now \in SchedStarts
    /\ user_reset_day \in ConfigDays
    /\ device_reset_day \in {1, user_reset_day}
    /\ coordinators \in {<<>>, <<"A">>}
    /\ file = FreshFiles
    /\ InitCommon

SchedNext ==
    \/ AsyncSetupEntry
    \/ \E j \in Jobs : TimerFires(j)
    \/ JobOpen
    \/ JobDump
    \/ JobSleep
    \/ \E j \in Jobs : JobRearm(j)
    \/ \E p \in Paths : WatcherReload(p)
    \/ Advance(MaxSchedDays)

SchedSpec == SchedInit /\ [][SchedNext]_vars

\* ================================================================ claims

\* ------------------------------------------------- what the claims refer to

\* The job's last run has ended (returned or raised) and nothing else has
\* happened at the store since: no job is between its steps, the observer
\* has handled every modification it was told of, nobody edited a file and
\* no write failed.
Settled(j) ==
    /\ snap[j].state \in {"done", "raised"}
    /\ running = NoJob
    /\ pending = {}
    /\ edits = 0
    /\ faults = 0

\* The job has fired at this instant and the device counters are those it saw.
JustFired(j) == Settled(j) /\ snap[j].at = now /\ devValue = snap[j].dev

\* The monthly offset and counter a job found when it fired.
OffsetAtFire(j, d, c) == Get(snap[j].cm, Str(c))

\* this_month_energy as the job's device read it when the job fired.
MonthReadingAtFire(j, d, c) ==
    IF OffsetAtFire(j, d, c).raised = "no"
    THEN Value(snap[j].dev[d][c] + OffsetAtFire(j, d, c).value)
    ELSE OffsetAtFire(j, d, c)

\* The capture job has fired at or after the last user-monthly-reset.
CaptureSinceUserReset ==
    /\ snap["device"].state # "never"
    /\ NotAfter(snap["user"].at, snap["device"].at)

\* The user-monthly-reset job has fired at or after the last capture.
UserResetSinceCapture ==
    /\ snap["user"].state # "never"
    /\ NotAfter(snap["device"].at, snap["user"].at)

\* The device zeroed its counters at its reset instant of this month, one
\* second after the capture fired, and has consumed nothing since.
ZeroedAfterCapture(d) ==
    /\ zeroedIn[d] = <<now.year, now.month>>
    /\ device_reset_day <= DaysInMonth(now.year, now.month)
    /\ snap["device"].at = MinusOneSecond(DT(now.year, now.month, device_reset_day, 0))
    /\ \A c \in Channels(d) : devValue[d][c] = 0

\* The content a store file holds for a channel, when it is a JSON object.
Stored(d, store, c) ==
    LET content == file[Path(d, store)]
    IN  IF content.kind = "object" /\ Str(c) \in DOMAIN content.map
        THEN Value(content.map[Str(c)]) ELSE Raise("absent")

\* The job is armed, running or in its grace delay.
Scheduled(j) == Len(timers[j]) > 0 \/ Len(sleeping[j]) > 0 \/ running.job = j

\* The reset day the job is configured with.
ResetDayOf(j) == IF j = "user" THEN user_reset_day ELSE device_reset_day

\* The boundary of a monthly job in month m of year y; the day exists there.
Boundary(j, y, m) ==
    IF j = "user" THEN DT(y, m, ResetDayOf(j), 0)
    ELSE MinusOneSecond(DT(y, m, ResetDayOf(j), 0))

\* The day d exists in the month of t and in the month after it.
DayExistsAround(t, d) ==
    /\ d <= DaysInMonth(t.year, t.month)
    /\ d <= DaysInMonth(YearOfNextMonth(t), NextMonthOf(t))

\* The earliest boundary of the job that is not before t.
NextBoundary(j, t) ==
    IF j = "daily"
    THEN Earliest({b \in {DT(t.year, t.month, t.day, 0), PlusOneDay(DT(t.year, t.month, t.day, 0))} :
                      NotAfter(t, b)})
    ELSE Earliest({b \in {Boundary(j, t.year, t.month),
                          Boundary(j, YearOfNextMonth(t), NextMonthOf(t))} : NotAfter(t, b)})

\* The reset day, or the last day of the month when the month lacks it.
ClampedDay(j, y, m) ==
    IF ResetDayOf(j) <= DaysInMonth(y, m) THEN ResetDayOf(j) ELSE DaysInMonth(y, m)

ClampedBoundary(j, y, m) ==
    IF j = "user" THEN DT(y, m, ClampedDay(j, y, m), 0)
    ELSE MinusOneSecond(DT(y, m, ClampedDay(j, y, m), 0))

\* The boundary a call at t targets when short months clamp: this month's if
\* it has not passed, else next month's.
ClampedTarget(j, t) ==
    IF NotAfter(t, ClampedBoundary(j, t.year, t.month))
    THEN ClampedBoundary(j, t.year, t.month)
    ELSE ClampedBoundary(j, YearOfNextMonth(t), NextMonthOf(t))

\* -------------------------------------------------------------------- C1

\* C1: once the user-monthly-reset job has written a device's monthly store
\* (and the observer has handled what it was told), every channel of the
\* device reads this_month_energy as the counter minus the counter the job
\* saw: 0 while the counter is unchanged, d after it grew by d. Until the
\* capture job fires, the device resets or somebody edits the file.
C1_UserMonthlyRebase ==
    (Settled("user") /\ snap["user"].state = "done" /\ ~CaptureSinceUserReset)
    => \A d \in snap["user"].done \cap sensors : \A c \in Channels(d) :
           (zeroedIn[d] = <<>> /\ devValue[d][c] >= snap["user"].dev[d][c])
           => this_month_energy(d, c) = Value(devValue[d][c] - snap["user"].dev[d][c])

\* -------------------------------------------------------------------- C2

\* C2: after the capture job has written a device's monthly store, the device
\* has zeroed its counter and the observer has handled what it was told, every
\* channel reads the this_month_energy it read just before the capture.
C2_DeviceResetNeutral ==
    (Settled("device") /\ snap["device"].state = "done" /\ ~UserResetSinceCapture)
    => \A d \in snap["device"].done \cap sensors :
           ZeroedAfterCapture(d)
           => \A c \in Channels(d) :
                  this_month_energy(d, c) = MonthReadingAtFire("device", d, c)

\* -------------------------------------------------------------------- C3

\* The clock stands at the instant the user-monthly-reset job last fired.
UserResetInstant == snap["user"].state # "never" /\ snap["user"].at = now

\* The capture job fired one second ago and wrote the device's monthly store.
Captured(d) ==
    /\ snap["device"].state = "done"
    /\ d \in snap["device"].done
    /\ snap["device"].at = MinusOneSecond(now)

\* C3: between user-monthly-reset boundaries, with the set of devices fixed,
\* nobody editing the files, no write failing and a counter that falls only at the device's own
\* reset after the capture, no step lowers the this_month_energy a channel
\* reads: not the capture, not the reload of the captured offset, not the
\* device's counter reset.
C3_MonthTotalMonotonic ==
    [][ (edits' = 0 /\ faults' = 0 /\ coordinators' = coordinators /\ ~UserResetInstant /\ ~UserResetInstant')
        => \A d \in sensors : \A c \in Channels(d) :
               /\ devValue'[d][c] < devValue[d][c] => Captured(d)
               /\ this_month_energy(d, c).raised = "no"
               /\ (this_month_energy(d, c).raised = "no")'
               => (this_month_energy(d, c).value)' >= this_month_energy(d, c).value ]_vars

\* -------------------------------------------------------------------- C4

\* C4: right after the daily job has fired on a day that is not the user reset
\* day, every channel of a metering device has DailyOffset = counter + monthly
\* offset as the job found them, in the cache and in the daily file, and reads
\* this_day_energy as 0.
C4_DailyRebaseOrdinaryDay ==
    (JustFired("daily") /\ snap["daily"].at.day # user_reset_day)
    => \A d \in snap["daily"].sensors : \A c \in Channels(d) :
           /\ Get(cached_daily, Str(c)) = MonthReadingAtFire("daily", d, c)
           /\ Stored(d, "daily", c) = MonthReadingAtFire("daily", d, c)
           /\ this_day_energy(d, c) = Value(0)

\* -------------------------------------------------------------------- C5

\* C5: right after the daily job has fired on the user reset day, every channel
\* of a metering device has DailyOffset = 0, in the cache and in the daily
\* file, and reads this_day_energy as 0 once the monthly offset is rebased too.
C5_DailyRebaseOnUserResetDay ==
    (JustFired("daily") /\ snap["daily"].at.day = user_reset_day)
    => \A d \in snap["daily"].sensors : \A c \in Channels(d) :
           /\ Get(cached_daily, Str(c)) = Value(0)
           /\ Stored(d, "daily", c) = Value(0)
           /\ (JustFired("user") /\ d \in snap["user"].done) => this_day_energy(d, c) = Value(0)

\* -------------------------------------------------------------------- C6

\* C6: a job runs at most once per boundary: the boundaries it fired for are
\* strictly increasing (each later than the one before), it never has two
\* timers armed, and every timer it arms after firing at B and sleeping
\* targets an instant strictly later than B.
C6_NoDuplicateExecution ==
    \A j \in Jobs :
        /\ \A i \in 1..(Len(fired[j]) - 1) : Before(fired[j][i], fired[j][i + 1])
        /\ Len(timers[j]) + Len(sleeping[j]) + (IF running.job = j THEN 1 ELSE 0) <= 1
        /\ \A t \in Range(timers[j]) :
               fired[j] # <<>> => After(t, fired[j][Len(fired[j])])

\* Every job has fired at two boundaries and is armed for a third.
C6_Witness == \A j \in Jobs : Len(fired[j]) >= 2 /\ Len(timers[j]) = 1

\* -------------------------------------------------------------------- C7

\* C7: once the integration has loaded, each of the three jobs stays
\* scheduled: it is armed, running, or in its grace delay before rearming.
C7_PerpetualJobs == entry = "loaded" => \A j \in Jobs : Scheduled(j)

\* -------------------------------------------------------------------- C8

\* C8: whenever a job's schedule function is called with a reset day that
\* exists in the months involved, the target it arms is the earliest boundary
\* of the job that is not before the instant of the call.
C8_NextOccurrence ==
    \A call \in sched :
        (call.job # "daily" => DayExistsAround(call.at, ResetDayOf(call.job)))
        => /\ call.result # ValueError
           /\ NotAfter(call.at, call.result)
           /\ call.result = NextBoundary(call.job, call.at)

\* -------------------------------------------------------------------- C9

\* C9: when the configured reset day does not exist in a month involved, the
\* schedule function still arms a timer, for the last day of that month.
C9_ShortMonthClamp ==
    \A call \in sched :
        (call.job # "daily" /\ ~DayExistsAround(call.at, ResetDayOf(call.job)))
        => /\ call.result # ValueError
           /\ call.result = ClampedTarget(call.job, call.at)

\* ------------------------------------------------------------------- C10

\* What a store file holds when it is not a JSON object of offsets.
Corrupt == {"missing", "unreadable", "empty", "invalid_json", "invalid_utf8", "non_object"}

\* C10: loading a store file that is missing, unreadable or malformed raises
\* nothing and leaves the cache at the map of every channel of the device to 0.
C10_CorruptionRecovery ==
    \A load \in loads :
        load.content.kind \in Corrupt
        => load.raised = "no" /\ load.result = Dict(ZeroMap(load.dev))

\* ------------------------------------------------------------------- C11

\* C11: a step in which a job's write of a store file fails leaves the file
\* with the content it had when the job fired, leaves both caches as they
\* were, and leaves the job in progress towards its rearm.
C11_FailedSaveNoOp ==
    [][ last'.op = "job_ioerror"
        => /\ file'[last'.path] = snap[last'.job].file[last'.path]
           /\ cached_monthly' = cached_monthly
           /\ cached_daily' = cached_daily
           /\ running'.job = last'.job ]_vars

\* ------------------------------------------------------------------- C12

\* The cache is a mapping with an entry for every channel of device d.
HasAllKeys(cache, d) ==
    /\ cache.kind = "dict"
    /\ \A c \in Channels(d) : Str(c) \in DOMAIN cache.map

\* C12: once a device's sensors are initialized, the MonthlyOffset cache and
\* the DailyOffset cache hold an entry for every channel of the device, in
\* every state reached through jobs, reloads, failed loads and outside edits.
C12_CompleteKeySet ==
    \A d \in sensors : HasAllKeys(cached_monthly, d) /\ HasAllKeys(cached_daily, d)

\* ------------------------------------------------------------------- C13

\* The cache the read path uses for a store.
CacheOf(store) == IF store = "daily" THEN cached_daily ELSE cached_monthly

\* C13: after an outside actor has overwritten a store file of an initialized
\* device with a valid mapping, and while nothing has rewritten the file, the
\* reload of that file is queued for the watcher or has taken place: the cache
\* of that store is the mapping written, so this_day_energy (this_month_energy)
\* reads counter + MonthlyOffset - written (counter + written).
C13_ExternalEditPickedUp ==
    (/\ edited # NoEdit
     /\ edited.content.kind = "object"
     /\ DOMAIN edited.content.map # {}
     /\ edited.path[1] \in sensors
     /\ file[edited.path] = edited.content
     /\ running = NoJob)
    => \/ edited.path \in pending
       \/ CacheOf(edited.path[2]) = Dict(edited.content.map)

\* ------------------------------------------------------------------- C14

\* The offset a cache holds for a channel, a missing entry counted as 0.
OffsetOr0(cache, c) ==
    IF cache.kind = "dict" /\ Str(c) \in DOMAIN cache.map THEN cache.map[Str(c)] ELSE 0

\* The reading the device reports for a translation key, absent counted as 0.
ReportedOr0(d, c, key) ==
    IF key \in EnergyKeys THEN devValue[d][c]
    ELSE IF InstantReading[key].present THEN InstantReading[key].value ELSE 0

\* C14: in every state of the caches, a read of power, voltage, current or
\* factor returns the device value (power in thousandths) with no offset,
\* this_month_energy returns counter + MonthlyOffset and this_day_energy
\* returns counter + MonthlyOffset - DailyOffset, an absent device value or a
\* missing offset entry counted as 0.
C14_DerivationFormulas ==
    \A d \in sensors : \A c \in Channels(d) :
        /\ native_value(d, c, "power") = Value(Thousandths(ReportedOr0(d, c, "power")))
        /\ \A key \in {"voltage", "current", "factor"} :
               native_value(d, c, key) = Value(ReportedOr0(d, c, key))
        /\ this_month_energy(d, c) =
               Value(ReportedOr0(d, c, "this_month_energy") + OffsetOr0(cached_monthly, c))
        /\ this_day_energy(d, c) =
               Value(ReportedOr0(d, c, "this_day_energy") + OffsetOr0(cached_monthly, c)
                         - OffsetOr0(cached_daily, c))

\* ------------------------------------------------------------------- C15

\* The step loads the stores of a device other than a (its sensors are
\* constructed, or the watcher reloads one of its files), or an outside actor
\* edits one of that device's files.
OtherDeviceStep(a) ==
    \/ last'.op = "discover" /\ last'.dev # a
    \/ last'.op = "external_edit" /\ last'.path[1] # a
    \/ last'.op = "reload" /\ observer.sensor # a

\* C15: loading or editing the stores of another device changes no energy
\* value read for a channel of device a.
C15_PerDeviceScoping ==
    [][ \A a \in sensors :
            OtherDeviceStep(a)
            => \A c \in Channels(a) : \A key \in EnergyKeys :
                   native_value(a, c, key)' = native_value(a, c, key) ]_vars

\* ------------------------------------------------------------------- C16

\* The path a job has opened for writing and not yet written.
BeingWritten ==
    IF running # NoJob /\ running.phase = "dump"
    THEN {Path(Head(running.todo), StoreOf(running.job))} ELSE {}

\* The cache of the job's store when the job fired.
CacheAtFire(j) == IF StoreOf(j) = "daily" THEN snap[j].cd ELSE snap[j].cm

\* C16: a reload of a store file that runs while a job is writing that file
\* leaves in the cache either the complete mapping in effect before the write
\* or the complete mapping the job writes, never a fallback or partial one.
C16_NoTornRead ==
    \A load \in loads :
        Path(load.dev, load.store) \in BeingWritten
        => \/ load.result = CacheAtFire(running.job)
           \/ load.result = Dict(JsonDump(running.data).map)

\* ------------------------------------------------------------------- C17

\* counter + M[c] for every channel of d, M the offsets in the monthly file.
MonthToDate(d, M) ==
    [k \in {Str(c) : c \in Channels(d)} |->
        LET c == CHOOSE x \in Channels(d) : Str(x) = k
        IN  devValue[d][c] + (IF k \in DOMAIN M THEN M[k] ELSE 0)]

\* C17: a step that initializes the sensors of a device whose daily file does
\* not exist while its monthly file holds offsets M creates the daily file
\* with counter + M[c] for every channel, and this_day_energy then reads 0;
\* a daily file that exists is left as it is.
C17_DailyStoreInitialization ==
    [][ \A d \in sensors' \ sensors :
            /\ (file[Path(d, "daily")] = Missing /\ file[Path(d, "monthly")].kind = "object")
               => /\ file'[Path(d, "daily")] =
                         Object(MonthToDate(d, file[Path(d, "monthly")].map))
                  /\ \A c \in Channels(d) : this_day_energy(d, c)' = Value(0)
            /\ file[Path(d, "daily")] # Missing
               => file'[Path(d, "daily")] = file[Path(d, "daily")] ]_vars

\* ------------------------------------------------------------------- C18

\* The watchers that observe both store files of device d.  The process has
\* one observer slot, RefossSensor._observer.
WatchersOf(d) ==
    {o \in {observer} : {Path(d, "monthly"), Path(d, "daily")} \subseteq WatchedPaths(o)}

\* C18: every device whose sensors are constructed has exactly one watcher on
\* its two store files, and a reload the watcher runs loads the file of the
\* device that owns the modified path into the cache of that store.
C18_OneWatcherPerDevice ==
    /\ \A d \in sensors : Cardinality(WatchersOf(d)) = 1
    /\ last.op = "reload"
       => \A load \in loads :
              /\ file[Path(load.dev, load.store)] = load.content
              /\ load.store = last.store
              /\ load.raised = "no" => CacheOf(load.store) = load.result

\* ------------------------------------------------------------------- C19

\* The step is one of the coroutine of job j.
JobStep(j) == running.job = j /\ running' # running

\* No file of the store changes in the step.
FilesUnchanged(store) == \A d \in Devs : file'[Path(d, store)] = file[Path(d, store)]

\* The step loads a file of the store (a sensor's construction or the watcher).
LoadsStore(store) == \E load \in loads' : load.store = store

\* The step creates the file, which did not exist, when a sensor is
\* constructed, or an actor outside the process writes it.
CreatedOrEdited(p) == file[p] = Missing \/ last'.op = "external_edit"

\* C19: a step of the user-monthly-reset job or of the capture job leaves the
\* DailyOffset cache and the daily files unchanged, a step of the daily job
\* leaves the MonthlyOffset cache and the monthly files unchanged; the
\* MonthlyOffset cache changes only in a load of a monthly file, the
\* DailyOffset cache only in a step of the daily job or a load of a daily file,
\* and inside the process an existing store file is written only by the jobs
\* that own its store.
C19_StoreOwnership ==
    [][ /\ (JobStep("user") \/ JobStep("device"))
           => cached_daily' = cached_daily /\ FilesUnchanged("daily")
        /\ JobStep("daily")
           => cached_monthly' = cached_monthly /\ FilesUnchanged("monthly")
        /\ cached_monthly' # cached_monthly => LoadsStore("monthly")
        /\ cached_daily' # cached_daily => JobStep("daily") \/ LoadsStore("daily")
        /\ \A d \in Devs :
               /\ file'[Path(d, "monthly")] # file[Path(d, "monthly")]
                  => \/ JobStep("user") \/ JobStep("device")
                     \/ CreatedOrEdited(Path(d, "monthly"))
               /\ file'[Path(d, "daily")] # file[Path(d, "daily")]
                  => JobStep("daily") \/ CreatedOrEdited(Path(d, "daily")) ]_vars

\* The user-monthly-reset job has written the monthly file of a device, the
\* watcher has loaded it, and the daily store still holds offsets.
C19_Witness ==
    /\ snap["user"].state = "done"
    /\ \E d \in snap["user"].done :
          /\ file[Path(d, "monthly")] = JsonDump([c \in Channels(d) |-> (-1) * snap["user"].dev[d][c]])
          /\ cached_monthly = Dict(file[Path(d, "monthly")].map)
          /\ cached_monthly # snap["user"].cm
          /\ file[Path(d, "daily")] = snap["user"].file[Path(d, "daily")]
          /\ cached_daily = snap["user"].cd
          /\ HasAllKeys(cached_daily, d)

\* ------------------------------------------------------------------- C20

\* C20: at 00:00:00 of the user reset day, once the user-monthly-reset job and
\* the daily job have both run, in either order, the watcher has handled all
\* reloads and the counters are unchanged, every channel of a metering device
\* has MonthlyOffset = -counter and DailyOffset = 0, in the caches and in the
\* files, and reads this_month_energy = this_day_energy = 0.
C20_OrderIndependence ==
    (JustFired("user") /\ JustFired("daily") /\ now.day = user_reset_day /\ now.sec = 0)
    => \A d \in snap["user"].sensors \cap snap["daily"].sensors : \A c \in Channels(d) :
           /\ Get(cached_monthly, Str(c)) = Value((-1) * devValue[d][c])
           /\ Stored(d, "monthly", c) = Value((-1) * devValue[d][c])
           /\ Get(cached_daily, Str(c)) = Value(0)
           /\ Stored(d, "daily", c) = Value(0)
           /\ this_month_energy(d, c) = Value(0)
           /\ this_day_energy(d, c) = Value(0)

====
